---- MODULE Spec2Model ----
(***************************************************************************)
(* Model of src/scrape.py: the single-task fetcher scrape_single, the      *)
(* connectivity probe check_tor_connection and the batch coordinator       *)
(* scrape_multiple with its thread pool.                                   *)
(*                                                                         *)
(* Strings are TLA+ strings; len(), slicing and concatenation are Len,     *)
(* SubSeq and \o.                                                          *)
(***************************************************************************)
EXTENDS Integers, Sequences, FiniteSets, TLC

\* ---------------------------------------------------------------- bounds
MaxTasks == 2
MaxWorkers == 2

\* ------------------------------------------------------- program constants
max_chars == 2000
retry_total == 3
status_forcelist == {500, 502, 503, 504}
TRUNCATED == "...(truncated)"
ONION == ".onion"
SEPARATOR == " - "

\* ---------------------------------------------------------------- strings
\* the one-character string c, n times
RECURSIVE Rep(_, _)
Rep(c, n) ==
    IF n = 0 THEN ""
    ELSE LET half == Rep(c, n \div 2)
         IN  IF n % 2 = 0 THEN half \o half ELSE half \o half \o c

\* Python's `sub in s`
Contains(s, sub) ==
    \E k \in 0..(Len(s) - Len(sub)) : SubSeq(s, k + 1, k + Len(sub)) = sub

\* ------------------------------------------------------------ input pools
LinkA == "http://a.test/"
LinkO == "http://b.onion/"
Title1 == "Example"
TitleLong == Rep("x", max_chars + 1)
Tasks ==
    { [link |-> LinkA, title |-> Title1],
      [link |-> LinkA, title |-> TitleLong],
      [link |-> LinkO, title |-> Title1] }

\* What the remote end of a link does for a fetch: the status codes it
\* answers to successive requests (none: the transport raises), the visible
\* text of the page it serves with a 200, whether parsing that page raises
\* (lines 122-129), and whether running the work item fails in the pool, so
\* that future.result() raises.  A source serves the same thing to every
\* fetch of its link.
Hello == "Hello World"
LongBody == Rep("y", max_chars + 5 - Len(Title1 \o SEPARATOR))
Ok200 ==
    [answers |-> <<200>>, text |-> Hello, broken |-> FALSE, fault |-> FALSE]
OkLong ==
    [answers |-> <<200>>, text |-> LongBody, broken |-> FALSE, fault |-> FALSE]
NotFound ==
    [answers |-> <<404>>, text |-> "", broken |-> FALSE, fault |-> FALSE]
Flaky ==
    [answers |-> <<503, 503, 503, 200>>, text |-> Hello, broken |-> FALSE, fault |-> FALSE]
Timeout ==
    [answers |-> <<>>, text |-> "", broken |-> FALSE, fault |-> FALSE]
Fault ==
    [answers |-> <<>>, text |-> "", broken |-> FALSE, fault |-> TRUE]
\* a page whose text is as long as the 10 characters of line 192 allow a
\* title-only result to be
Tiny == "1234567"
OkTiny ==
    [answers |-> <<200>>, text |-> Tiny, broken |-> FALSE, fault |-> FALSE]
Broken ==
    [answers |-> <<200>>, text |-> "", broken |-> TRUE, fault |-> FALSE]
Behaviours ==
    {Ok200, OkLong, OkTiny, Broken, NotFound, Flaky, Timeout, Fault}

\* the probe has not been made
NoResponse == [code |-> -1, json |-> FALSE, IsTor |-> FALSE]

\* Answers of the identity-check endpoint to the probe: the status code (0:
\* session.get raises), whether the body parses as a JSON object, and the
\* IsTor flag of that object.
ProbeAnswers ==
    { [code |-> 200, json |-> TRUE, IsTor |-> TRUE],
      [code |-> 200, json |-> TRUE, IsTor |-> FALSE],
      [code |-> 200, json |-> FALSE, IsTor |-> FALSE],
      [code |-> 500, json |-> FALSE, IsTor |-> FALSE],
      [code |-> 0, json |-> FALSE, IsTor |-> FALSE] }

VARIABLES
    urls_data,          \* the batch: a sequence of [link, title]
    max_workers,
    progress_callback,  \* "None" or "callable"
    source,             \* source[link]: what the remote end of link does
    pc,                 \* position of the thread running scrape_multiple
    tor_ok,
    tor_response,       \* what the identity-check endpoint answered the probe
    probes,             \* calls of check_tor_connection so far
    future,             \* future[i]: "new", "pending", "running", "finished"
    outcome,            \* outcome[i]: what future[i].result() gives
    yielded,            \* futures as_completed has handed to the loop
    url_data,           \* index of the future the loop body last handled
    results,
    success_count,
    fail_count,
    completed,
    calls               \* invocations of progress_callback, in order

vars == <<urls_data, max_workers, progress_callback, source, pc, tor_ok,
          tor_response, probes, future, outcome, yielded, url_data, results, success_count,
          fail_count, completed, calls>>

total_urls == Len(urls_data)
Ix == 1..total_urls

\* -------------------------------------------------------- pure functions
\* check_tor_connection: code 0 stands for an exception of session.get
check_tor_connection(answer) ==
    IF answer.code = 0 THEN FALSE
    ELSE IF answer.code = 200
         THEN (IF answer.json THEN TRUE ELSE FALSE)
         ELSE FALSE

\* A request through the session of get_tor_session: a status of the
\* forcelist is retried while retries remain, then the adapter raises.
\* 0 stands for a raised exception.
RECURSIVE TorGet(_, _, _)
TorGet(answers, k, retries) ==
    IF k > Len(answers) THEN 0
    ELSE IF answers[k] \in status_forcelist
         THEN (IF retries > 0 THEN TorGet(answers, k + 1, retries - 1) ELSE 0)
         ELSE answers[k]

\* requests.get: a single request, no retry adapter mounted
DirectGet(answers) == IF Len(answers) = 0 THEN 0 ELSE answers[1]

status_code(task, beh) ==
    IF Contains(task.link, ONION)
    THEN TorGet(beh.answers, 1, retry_total)
    ELSE DirectGet(beh.answers)

\* scrape_single whose fallback keeps the separator of line 129
scrape_single_sep(task, beh) ==
    IF status_code(task, beh) = 200 /\ ~beh.broken
    THEN [raised |-> FALSE, url |-> task.link,
          text |-> task.title \o SEPARATOR \o beh.text]
    ELSE [raised |-> FALSE, url |-> task.link,
          text |-> task.title \o SEPARATOR]

\* scrape_single without the handler of lines 140-142
scrape_single_nohandler(task, beh) ==
    IF status_code(task, beh) = 200 /\ beh.broken
    THEN [raised |-> TRUE, url |-> task.link, text |-> ""]
    ELSE IF status_code(task, beh) = 200
    THEN [raised |-> FALSE, url |-> task.link,
          text |-> task.title \o SEPARATOR \o beh.text]
    ELSE [raised |-> FALSE, url |-> task.link, text |-> task.title]

\* scrape_single: the (url, scraped_text) pair it returns; raised tells
\* whether an exception left it.  Every exception of the try block (the
\* transport's, status 0, and the parser's) ends in a handler of lines
\* 134-142, which falls back to the title.
scrape_single(task, beh) ==
    IF status_code(task, beh) = 200 /\ ~beh.broken
    THEN [raised |-> FALSE, url |-> task.link,
          text |-> task.title \o SEPARATOR \o beh.text]
    ELSE [raised |-> FALSE, url |-> task.link, text |-> task.title]

\* future.result() of the work item of a task (line 185): what
\* scrape_single gave, or the exception of a work item that failed
result(task, beh) ==
    IF beh.fault THEN [raised |-> TRUE, url |-> task.link, text |-> ""]
    ELSE scrape_single(task, beh)

\* the slice of line 187 without the marker
Truncate_nomarker(content) ==
    IF Len(content) > max_chars
    THEN SubSeq(content, 1, max_chars)
    ELSE content

Truncate(content) ==
    IF Len(content) > max_chars
    THEN SubSeq(content, 1, max_chars) \o TRUNCATED
    ELSE content

\* line 192 with >= for >
Classify_ge(content, title) ==
    IF Len(content) >= Len(title) + 10 THEN "success" ELSE "failed"

\* lines 192-197: the status of a collected task
Classify(content, title) ==
    IF Len(content) > Len(title) + 10 THEN "success" ELSE "failed"

\* line 159 looking at the first task only
has_onion_first == Contains(urls_data[1].link, ONION)

\* line 159
has_onion == \E i \in Ix : Contains(urls_data[i].link, ONION)

\* results[result_url] = content
Put(map, key, val) ==
    [k \in (DOMAIN map) \cup {key} |-> IF k = key THEN val ELSE map[k]]

\* One invocation progress_callback(label, status, current, total), and
\* whether the callback raised.
Call(label, status, current, total, raises) ==
    [label |-> label, status |-> status, completed |-> current,
     total |-> total, raised |-> raises]

\* line 163
CheckingCall(raises) ==
    Call("Checking Tor connection...", "checking", 0, total_urls, raises)

\* line 168 reporting the per-task status "failed"
TorDownCall_failed(raises) ==
    Call("Tor NOT running!", "failed", 0, total_urls, raises)

\* line 168
TorDownCall(raises) ==
    Call("Tor NOT running!", "error", 0, total_urls, raises)

\* lines 202-208 without the progress call of line 207
ExceptBranch_noprogress(c, f, log, url, raises) ==
    [completed |-> c + 1,
     fail_count |-> f + 1,
     calls |-> log,
     raised |-> FALSE]

\* lines 202-208 without line 205
ExceptBranch_nofail(c, f, log, url, raises) ==
    [completed |-> c + 1,
     fail_count |-> f,
     calls |-> IF progress_callback = "None" THEN log
               ELSE Append(log, Call(url, "error", c + 1, total_urls, raises)),
     raised |-> progress_callback # "None" /\ raises]

\* lines 202-208, entered with the counters c (completed) and f
\* (fail_count) and the invocations log: what the handler leaves behind,
\* and whether the callback's raise leaves scrape_multiple.
ExceptBranch(c, f, log, url, raises) ==
    [completed |-> c + 1,
     fail_count |-> f + 1,
     calls |-> IF progress_callback = "None" THEN log
               ELSE Append(log, Call(url, "error", c + 1, total_urls, raises)),
     raised |-> progress_callback # "None" /\ raises]

RECURSIVE SeqsUpTo(_, _)
SeqsUpTo(S, n) ==
    IF n = 0 THEN {<<>>}
    ELSE LET shorter == SeqsUpTo(S, n - 1)
         IN  shorter \cup {Append(s, x) : s \in {t \in shorter : Len(t) = n - 1}, x \in S}

\* ------------------------------------------------------------------ Init
Init ==
    /\ urls_data \in SeqsUpTo(Tasks, MaxTasks) \ {<<>>}
    /\ max_workers \in 1..MaxWorkers
    /\ progress_callback \in {"None", "callable"}
    /\ source \in [{urls_data[i].link : i \in 1..Len(urls_data)} -> Behaviours]
    /\ pc = "start"
    /\ tor_ok = FALSE
    /\ tor_response = NoResponse
    /\ probes = 0
    /\ future = [i \in 1..Len(urls_data) |-> "new"]
    /\ outcome = [i \in 1..Len(urls_data) |-> [raised |-> FALSE, url |-> "", text |-> ""]]
    /\ yielded = {}
    /\ url_data = 0
    /\ results = <<>>
    /\ success_count = 0
    /\ fail_count = 0
    /\ completed = 0
    /\ calls = <<>>

\* The batches of the fairness specification: the same tasks, with one
\* source of each kind (a page, a transport error, a dying worker call).
FairInit ==
    /\ Init
    /\ \A l \in DOMAIN source : source[l] \in {Ok200, Timeout, Fault}

\* --------------------------------------------------------------- actions
\* lines 159-163: an .onion link is in the batch, the "checking" event
Checking ==
    /\ pc = "start"
    /\ has_onion
    /\ UNCHANGED <<urls_data, max_workers, progress_callback, source, tor_ok,
                   tor_response, probes, future, outcome, yielded, url_data,
                   results, success_count, fail_count, completed>>
    /\ \E r1 \in BOOLEAN :
         IF progress_callback = "None"
         THEN /\ ~r1
              /\ calls' = calls
              /\ pc' = "probe"
         ELSE \* a raise of line 163 is caught nowhere
              /\ calls' = Append(calls, CheckingCall(r1))
              /\ pc' = IF r1 THEN "raised" ELSE "probe"

\* line 164: tor_ok = check_tor_connection()
Probe ==
    /\ pc = "probe"
    /\ \E answer \in ProbeAnswers :
         /\ tor_response' = answer
         /\ tor_ok' = check_tor_connection(answer)
    /\ probes' = probes + 1
    /\ pc' = "probed"
    /\ UNCHANGED <<urls_data, max_workers, progress_callback, source, future,
                   outcome, yielded, url_data, results, success_count,
                   fail_count, completed, calls>>

\* lines 165-168: the "error" event of a failed probe; the response of the
\* probe was local to check_tor_connection and is gone
TorDown ==
    /\ pc = "probed"
    /\ tor_response' = NoResponse
    /\ UNCHANGED <<urls_data, max_workers, progress_callback, source, tor_ok,
                   probes, future, outcome, yielded, url_data, results,
                   success_count, fail_count, completed>>
    /\ \E r2 \in BOOLEAN :
         IF tor_ok \/ progress_callback = "None"
         THEN /\ ~r2
              /\ calls' = calls
              /\ pc' = "submit"
         ELSE /\ calls' = Append(calls, TorDownCall(r2))
              /\ pc' = IF r2 THEN "raised" ELSE "submit"

\* line 160, has_onion false
SkipCheck ==
    /\ pc = "start"
    /\ ~has_onion
    /\ pc' = "submit"
    /\ UNCHANGED <<urls_data, max_workers, progress_callback, source, tor_ok,
                   tor_response, probes, future, outcome, yielded, url_data,
                   results, success_count, fail_count, completed, calls>>

\* lines 177-180: executor.submit for the next task of urls_data, in input
\* order; after the last one the loop of line 181 starts
Submit(i) ==
    /\ pc = "submit"
    /\ future[i] = "new"
    /\ \A j \in Ix : j < i => future[j] # "new"
    /\ future' = [future EXCEPT ![i] = "pending"]
    /\ pc' = IF i = total_urls THEN "collect" ELSE pc
    /\ UNCHANGED <<urls_data, max_workers, progress_callback, source, tor_ok,
                   tor_response, probes, outcome, yielded, url_data, results,
                   success_count, fail_count, completed, calls>>

in_flight == {i \in Ix : future[i] = "running"}

\* a pool that starts a thread for every work item
pool_has_room_unbounded == TRUE

\* ThreadPoolExecutor(max_workers=max_workers): the pool has at most
\* max_workers threads, each running one work item at a time
pool_has_room == Cardinality(in_flight) < max_workers

\* A pool thread takes the oldest queued work item.
WorkerStart(i) ==
    /\ future[i] = "pending"
    /\ \A j \in Ix : j < i => future[j] # "pending"
    /\ pool_has_room
    /\ future' = [future EXCEPT ![i] = "running"]
    /\ UNCHANGED <<urls_data, max_workers, progress_callback, source, pc,
                   tor_ok, tor_response, probes, outcome, yielded, url_data,
                   results, success_count, fail_count, completed, calls>>

\* a work item that stores its text itself when it ends
WorkerFinish_writes(i) ==
    /\ future[i] = "running"
    /\ future' = [future EXCEPT ![i] = "finished"]
    /\ outcome' = [outcome EXCEPT
                      ![i] = result(urls_data[i], source[urls_data[i].link])]
    /\ results' = IF outcome'[i].raised THEN results
                  ELSE Put(results, outcome'[i].url, outcome'[i].text)
    /\ UNCHANGED <<urls_data, max_workers, progress_callback, source, pc,
                   tor_ok, tor_response, probes, yielded, url_data,
                   success_count, fail_count, completed, calls>>

\* a work item that reports its own progress when it ends
WorkerFinish_reports(i) ==
    /\ future[i] = "running"
    /\ future' = [future EXCEPT ![i] = "finished"]
    /\ outcome' = [outcome EXCEPT
                      ![i] = result(urls_data[i], source[urls_data[i].link])]
    /\ calls' = IF progress_callback = "None" THEN calls
                ELSE Append(calls, Call(urls_data[i].link, "success",
                                        completed, total_urls, FALSE))
    /\ UNCHANGED <<urls_data, max_workers, progress_callback, source, pc,
                   tor_ok, tor_response, probes, yielded, url_data, results,
                   success_count, fail_count, completed>>

\* the work item ends in the pool thread: scrape_single has returned, or
\* the work item has failed
WorkerFinish(i) ==
    /\ future[i] = "running"
    /\ future' = [future EXCEPT ![i] = "finished"]
    /\ outcome' = [outcome EXCEPT
                      ![i] = result(urls_data[i], source[urls_data[i].link])]
    /\ UNCHANGED <<urls_data, max_workers, progress_callback, source, pc,
                   tor_ok, tor_response, probes, yielded, url_data, results,
                   success_count, fail_count, completed, calls>>

\* lines 181-208: one iteration of the as_completed loop
Collect(i) ==
    /\ pc = "collect"
    /\ future[i] = "finished"
    /\ i \notin yielded
    /\ yielded' = yielded \cup {i}
    /\ url_data' = i
    /\ UNCHANGED <<urls_data, max_workers, progress_callback, source, tor_ok,
                   tor_response, probes, future, outcome>>
    /\ \E r1, r2 \in BOOLEAN :
         LET url == urls_data[i].link
             content == Truncate(outcome[i].text)
             status == Classify(content, urls_data[i].title)
             succ == IF status = "success" THEN success_count + 1 ELSE success_count
             fail == IF status = "failed" THEN fail_count + 1 ELSE fail_count
         IN  IF outcome[i].raised
             THEN \* line 185 raises
                  LET x == ExceptBranch(completed, fail_count, calls, url, r1)
                  IN  /\ ~r2
                      /\ progress_callback = "None" => ~r1
                      /\ results' = results
                      /\ success_count' = success_count
                      /\ completed' = x.completed
                      /\ fail_count' = x.fail_count
                      /\ calls' = x.calls
                      /\ pc' = IF x.raised THEN "raised" ELSE pc
             ELSE \* lines 185-200
                  /\ results' = Put(results, outcome[i].url, content)
                  /\ success_count' = succ
                  /\ IF progress_callback = "None"
                     THEN /\ ~r1 /\ ~r2
                          /\ completed' = completed + 1
                          /\ fail_count' = fail
                          /\ calls' = calls
                          /\ pc' = pc
                     ELSE LET log == Append(calls, Call(url, status, completed + 1, total_urls, r1))
                              x == ExceptBranch(completed + 1, fail, log, url, r2)
                          IN  IF ~r1
                              THEN /\ ~r2
                                   /\ completed' = completed + 1
                                   /\ fail_count' = fail
                                   /\ calls' = log
                                   /\ pc' = pc
                              ELSE \* the raise of line 200 is caught at line 202
                                   /\ completed' = x.completed
                                   /\ fail_count' = x.fail_count
                                   /\ calls' = x.calls
                                   /\ pc' = IF x.raised THEN "raised" ELSE pc

\* a return that does not wait for the futures
Return_early ==
    /\ pc = "collect"
    /\ pc' = "returned"
    /\ UNCHANGED <<urls_data, max_workers, progress_callback, source, tor_ok,
                   tor_response, probes, future, outcome, yielded, url_data,
                   results, success_count, fail_count, completed, calls>>

\* lines 209-211: the loop is exhausted, the executor is shut down
Return ==
    /\ pc = "collect"
    /\ yielded = Ix
    /\ pc' = "returned"
    /\ UNCHANGED <<urls_data, max_workers, progress_callback, source, tor_ok,
                   tor_response, probes, future, outcome, yielded, url_data,
                   results, success_count, fail_count, completed, calls>>

Next ==
    \/ Checking
    \/ Probe
    \/ TorDown
    \/ SkipCheck
    \/ \E i \in Ix : Submit(i)
    \/ \E i \in Ix : WorkerStart(i)
    \/ \E i \in Ix : WorkerFinish(i)
    \/ \E i \in Ix : Collect(i)
    \/ Return

Spec == Init /\ [][Next]_vars

\* The pool's threads and the calling thread are all scheduled.
FairSpec ==
    /\ FairInit
    /\ [][Next]_vars
    /\ WF_vars(Checking \/ Probe \/ TorDown \/ SkipCheck \/ Return)
    /\ WF_vars(\E i \in Ix : Submit(i))
    /\ WF_vars(\E i \in Ix : WorkerStart(i))
    /\ WF_vars(\E i \in Ix : WorkerFinish(i))
    /\ WF_vars(\E i \in Ix : Collect(i))

\* ------------------------------------------------------------ properties
Links == {urls_data[i].link : i \in Ix}

\* no invocation of the callback has raised
NoRaise == \A k \in 1..Len(calls) : ~calls[k].raised

\* the invocations made for a task by the loop of lines 181-208
IsTaskCall(c) == c.label \notin {"Checking Tor connection...", "Tor NOT running!"}
TaskCalls == SelectSeq(calls, IsTaskCall)

\* the fetch of task i ends in a non-200 response or an exception of the
\* transport or the parser
FetchFailed(i) ==
    LET beh == source[urls_data[i].link]
    IN  ~beh.fault /\ (status_code(urls_data[i], beh) # 200 \/ beh.broken)

\* a title as the coordinator stores it
StoredTitle(title) ==
    IF Len(title) <= max_chars THEN title
    ELSE SubSeq(title, 1, max_chars) \o TRUNCATED

SameTitlePerLink(i) ==
    \A j \in Ix : urls_data[j].link = urls_data[i].link
                    => urls_data[j].title = urls_data[i].title

\* C1: the returned mapping has exactly one entry per distinct input link,
\* also when obtaining a task's result raises.
C1_KeysAreLinks ==
    pc = "returned" => DOMAIN results = Links

\* C2: with a callback that does not raise, every collected task has
\* exactly one per-task event, the events carry completed = 1, 2, ... in
\* delivery order and total = N, and at return there are N of them, the
\* last with completed = total, whichever fetches fail.
C2_OneEventPerTask ==
    (progress_callback = "callable" /\ NoRaise) =>
        /\ Len(TaskCalls) = Cardinality(yielded)
        /\ \A k \in 1..Len(TaskCalls) :
              TaskCalls[k].completed = k /\ TaskCalls[k].total = total_urls
        /\ \A l \in Links :
              Cardinality({k \in 1..Len(TaskCalls) : TaskCalls[k].label = l})
                = Cardinality({i \in yielded : urls_data[i].link = l})
        /\ pc = "returned" =>
              /\ Len(TaskCalls) = total_urls
              /\ TaskCalls[Len(TaskCalls)].completed = TaskCalls[Len(TaskCalls)].total

\* a batch of at least two tasks, all failed, returned with its events
C2_Witness ==
    /\ pc = "returned"
    /\ progress_callback = "callable"
    /\ NoRaise
    /\ total_urls >= 2
    /\ success_count = 0
    /\ Len(TaskCalls) = total_urls

\* C3: a raise of the progress callback never leaves scrape_multiple.
C3_CallbackRaiseIsolated ==
    pc # "raised"

C5_TruncationLaw ==
    /\ (url_data # 0 /\ ~outcome[url_data].raised) =>
          LET t == outcome[url_data].text
              stored == results[outcome[url_data].url]
          IN  /\ Len(t) <= max_chars => stored = t
              /\ Len(t) > max_chars =>
                    /\ SubSeq(stored, 1, max_chars) = SubSeq(t, 1, max_chars)
                    /\ SubSeq(stored, max_chars + 1, Len(stored)) = TRUNCATED
    /\ \A l \in DOMAIN results : Len(results[l]) <= max_chars + Len(TRUNCATED)

\* a text of max_chars + 5 characters has just been recorded
C5_Witness ==
    /\ url_data # 0
    /\ ~outcome[url_data].raised
    /\ Len(outcome[url_data].text) = max_chars + 5
    /\ Len(results[outcome[url_data].url]) = max_chars + Len(TRUNCATED)

\* C6: never more than max_workers fetches in flight; once dispatching
\* starts every task is eventually fetched; at return every task has
\* been fetched and every task whose result was obtained has its link in
\* the result mapping.
C6_BoundedPool ==
    /\ [](Cardinality(in_flight) <= max_workers)
    /\ (pc = "submit") ~> (\A i \in Ix : future[i] = "finished")
    /\ [](pc = "returned" =>
            \A i \in Ix :
                /\ future[i] = "finished"
                /\ ~outcome[i].raised => urls_data[i].link \in DOMAIN results)

\* more tasks than workers, the pool full, a task waiting
C6_Witness ==
    /\ total_urls > max_workers
    /\ Cardinality(in_flight) = max_workers
    /\ \E i \in Ix : future[i] = "pending"

YieldedFailed ==
    {i \in yielded :
        \/ outcome[i].raised
        \/ Len(Truncate(outcome[i].text)) <= Len(urls_data[i].title) + 10}

\* C8: while the callback does not raise, a task whose result raises in
\* the coordinator is counted once in completed and once in fail_count,
\* gets its progress event, and the loop goes on to collect every other
\* task before returning.
C8_FaultCounted ==
    NoRaise =>
        /\ completed = Cardinality(yielded)
        /\ fail_count = Cardinality(YieldedFailed)
        /\ success_count = Cardinality(yielded \ YieldedFailed)
        /\ (url_data # 0 /\ outcome[url_data].raised
              /\ progress_callback = "callable") =>
              /\ Len(calls) > 0
              /\ calls[Len(calls)].label = urls_data[url_data].link
              /\ calls[Len(calls)].status = "error"
              /\ calls[Len(calls)].completed = completed
              /\ calls[Len(calls)].total = total_urls
        /\ pc # "raised"
        /\ pc = "returned" => yielded = Ix

\* a task whose result raised and a task that succeeded, both collected
C8_Witness ==
    /\ pc = "returned"
    /\ progress_callback = "callable" /\ NoRaise
    /\ \E i, j \in Ix : outcome[i].raised /\ ~outcome[j].raised
    /\ success_count = 1
    /\ fail_count = total_urls - 1

\* the mapping of the run that collects the tasks in input order
RECURSIVE RunInOrder(_)
RunInOrder(n) ==
    IF n = 0 THEN <<>>
    ELSE LET out == result(urls_data[n], source[urls_data[n].link])
         IN  IF out.raised THEN RunInOrder(n - 1)
             ELSE Put(RunInOrder(n - 1), out.url, Truncate(out.text))

\* C9: the returned mapping does not depend on the completion order: it is
\* the mapping of the run that completes in input order.
C9_SameMappingEveryRun ==
    pc = "returned" => results = RunInOrder(total_urls)

\* C10: in either routing mode, a source that answers 503 three times and
\* then 200 ends in the extracted text.
C10_RetryAbsorbs503 ==
    \A i \in Ix :
        (future[i] = "finished" /\ source[urls_data[i].link] = Flaky) =>
            /\ ~outcome[i].raised
            /\ outcome[i].text = urls_data[i].title \o SEPARATOR \o Hello

\* C11: the probe answers true only for a 200 whose body parses and whose
\* IsTor flag is true, and false for everything else.
C11_ProbeTrueOnlyIfTor ==
    pc = "probed" =>
        (tor_ok <=> (/\ tor_response.code = 200
                     /\ tor_response.json
                     /\ tor_response.IsTor))

Line200Call ==
    IF calls[Len(calls)].status = "error"
    THEN calls[Len(calls) - 1]
    ELSE calls[Len(calls)]

\* C13: a task whose fetch fell back to the bare title is reported with
\* phase "failed" and is not counted as a success, whatever the length of
\* its title.
C13_FallbackNeverSuccess ==
    /\ (url_data # 0 /\ FetchFailed(url_data)
          /\ progress_callback = "callable") =>
          Line200Call.status = "failed"
    /\ success_count <=
          Cardinality({i \in yielded : ~FetchFailed(i) /\ ~outcome[i].raised})

\* C14: check_tor_connection is called once when a link of the batch
\* contains ".onion" and never otherwise; no task is submitted before it
\* has returned, and the "checking" event is the callback's first.
C14_ProbeOnceBeforeDispatch ==
    LET onion == \E i \in Ix : Contains(urls_data[i].link, ONION)
    IN  /\ probes <= 1
        /\ ~onion => probes = 0
        /\ (onion /\ pc \in {"submit", "collect", "returned"}) => probes = 1
        /\ (onion /\ \E i \in Ix : future[i] # "new") =>
              /\ probes = 1
              /\ pc \notin {"start", "probe", "probed"}
        /\ (probes = 1 /\ progress_callback = "callable") =>
              /\ Len(calls) >= 1
              /\ calls[1].status = "checking"
              /\ ~calls[1].raised
        /\ (onion /\ Len(TaskCalls) > 0) => calls[1].status = "checking"

\* an .onion batch that was probed, dispatched, collected and returned
C14_Witness ==
    /\ pc = "returned"
    /\ \E i \in Ix : Contains(urls_data[i].link, ONION)
    /\ \E i \in Ix : ~Contains(urls_data[i].link, ONION)
    /\ probes = 1
    /\ progress_callback = "callable"
    /\ calls[1].status = "checking"
    /\ Len(TaskCalls) = total_urls

\* C15: only a step of the as_completed loop, taken by the thread that
\* called scrape_multiple, changes the result mapping or a counter; the
\* steps of the pool threads change none of them.
C15_OnlyCoordinatorWrites ==
    [][ (\/ results' # results
         \/ completed' # completed
         \/ success_count' # success_count
         \/ fail_count' # fail_count)
        => (/\ pc = "collect"
            /\ future' = future
            /\ outcome' = outcome
            /\ \E i \in Ix : i \notin yielded /\ yielded' = yielded \cup {i}) ]_vars

\* the mapping and the counters are written while a pool thread is still
\* running a fetch
C15_Witness ==
    /\ \E i \in Ix : future[i] = "running"
    /\ completed >= 1
    /\ DOMAIN results # {}

\* C16: the callback is invoked only in steps of the thread that called
\* scrape_multiple, never in a step of a pool thread, and each per-task
\* event is for the task the loop has collected last.
C16_SerializedProgress ==
    /\ [][ calls' # calls
           => (/\ pc \in {"start", "probed", "collect"}
               /\ future' = future
               /\ outcome' = outcome) ]_vars
    /\ [](Len(TaskCalls) > 0 =>
            /\ url_data # 0
            /\ TaskCalls[Len(TaskCalls)].label = urls_data[url_data].link
            /\ TaskCalls[Len(TaskCalls)].completed = completed)

\* an event has been delivered while a pool thread is running a fetch
C16_Witness ==
    /\ \E i \in Ix : future[i] = "running"
    /\ Len(TaskCalls) > 0
    /\ url_data # 0
    /\ future[url_data] = "finished"

\* C17: the call ends: the mapping is returned, or (C3) an exception of the
\* callback leaves scrape_multiple; it is returned only when every future
\* has finished and has been collected.
C17_RunsToCompletion ==
    /\ <>(pc \in {"returned", "raised"})
    /\ [](pc = "raised" => ~NoRaise)
    /\ [](pc = "returned" =>
            /\ yielded = Ix
            /\ \A i \in Ix : future[i] = "finished")

\* a batch with more tasks than workers has returned
C17_Witness ==
    /\ pc = "returned"
    /\ total_urls > max_workers
    /\ \A i \in Ix : future[i] = "finished"

\* C18: for a task whose result was obtained, the phase passed at line 200
\* is "success" exactly when the stored text is more than 10 characters
\* longer than the title, and "failed" otherwise.
C18_PhaseIsLengthRule ==
    (url_data # 0 /\ ~outcome[url_data].raised
        /\ progress_callback = "callable") =>
        LET stored == results[urls_data[url_data].link]
            title == urls_data[url_data].title
        IN  /\ Len(stored) > Len(title) + 10 => Line200Call.status = "success"
            /\ Len(stored) <= Len(title) + 10 => Line200Call.status = "failed"

\* a page of title + 10 characters was collected and reported "failed"
C18_Witness ==
    /\ url_data # 0
    /\ ~outcome[url_data].raised
    /\ progress_callback = "callable"
    /\ source[urls_data[url_data].link] = OkTiny
    /\ Len(results[urls_data[url_data].link]) = Len(urls_data[url_data].title) + 10
    /\ Line200Call.status = "failed"

\* C19: completed never exceeds total, success_count + fail_count is
\* completed, every collected task adds one to completed, the counts add
\* up to total at return, and no event carries completed > total, also
\* when the callback raises in the loop.
C19_CounterInvariant ==
    /\ completed <= total_urls
    /\ success_count + fail_count = completed
    /\ completed = Cardinality(yielded)
    /\ pc = "returned" => success_count + fail_count = total_urls
    /\ \A k \in 1..Len(calls) : calls[k].completed <= calls[k].total

====
